---- MODULE Spec2Model ----
(***************************************************************************)
(* Model of src/main.rs of tapis-project/sshkeytest: main() times three    *)
(* key-generation runs (ECDSA, Ed25519, RSA) one after another, each run   *)
(* being one call of gen_ssh_keys().  The external capabilities            *)
(* (PrivateKey::random, the encoders, the monotonic clock) are black boxes *)
(* whose results are chosen nondeterministically; every effect the program *)
(* has on its environment (clock reads, RNG draws, encoder calls, lines    *)
(* printed, panics) is appended to `log` in program order.  `log` holds    *)
(* the effects of the block of main() in progress (or last executed); the  *)
(* blocks share nothing but the RNG handle, so the blocks that finished    *)
(* before it are remembered by the report lines they printed, `reports`.   *)
(* Durations are integer counts of the clock's smallest unit and           *)
(* Duration / u32 is truncating integer division that panics on zero.      *)
(***************************************************************************)
EXTENDS Integers, Sequences, FiniteSets, TLC

\* ---- bounds of the model ----
MaxIter == 3
MaxRsaIter == 1
MaxElapsed == 3

\* ---- program text ----
AlgNames == {"ECDSA", "ED25519", "RSA"}

\* main() runs the blocks in this textual order (lines 36-63)
AlgSeq_rsa_first == <<"RSA", "ECDSA", "ED25519">>
AlgSeq == <<"ECDSA", "ED25519", "RSA">>

Result == {"Ok", "Err"}

VARIABLES
  ITERATIONS,      \* const ITERATIONS: u32 (line 25), configured per run
  RSA_ITERATIONS,  \* const RSA_ITERATIONS: u32 (line 24), configured per run
  TEST_ALGS,       \* let TEST_ALGS (line 27), configured per run
  run,             \* index in AlgSeq of the block main() is executing
  pc,              \* position inside that block / inside gen_ssh_keys
  rng,             \* number of draws made from the single RNG handle
  started,         \* TRUE while `start` is live and elapsed() not yet taken
  duration,        \* let duration = start.elapsed()
  iterations,      \* parameter of gen_ssh_keys
  key_cnt,         \* let mut key_cnt
  key,             \* the loop-local `key` (0 = none); a key is named by its draw
  log,             \* effects of the current block on the environment, in order
  reports          \* the report lines printed so far, in order

vars == <<ITERATIONS, RSA_ITERATIONS, TEST_ALGS, run, pc, rng, started,
          duration, iterations, key_cnt, key, log, reports>>

config == <<ITERATIONS, RSA_ITERATIONS, TEST_ALGS>>

Ev(op, alg, what, res, n, d, m) ==
  [op |-> op, alg |-> alg, what |-> what, res |-> res, n |-> n, d |-> d, m |-> m]

Alg == AlgSeq[run]

\* the iteration constant each block of main() passes, prints and divides by
IterArg(a) == IF a = "RSA" THEN RSA_ITERATIONS ELSE ITERATIONS

Divisor_shared(a) == ITERATIONS
Divisor(a) == IF a = "RSA" THEN RSA_ITERATIONS ELSE ITERATIONS

\* while key_cnt < iterations (line 73)
LoopCond_inclusive(c, n) == c <= n
LoopCond(c, n) == c < n

\* if key_cnt == 1 (line 86)
IsFirstKey_always(c) == c >= 1
IsFirstKey(c) == c = 1

\* Duration / u32: truncating; the library panics when the divisor is 0
DurationDiv(d, n) == d \div n

Init ==
  /\ ITERATIONS \in 0..MaxIter
  /\ RSA_ITERATIONS \in 0..MaxRsaIter
  /\ TEST_ALGS \in SUBSET AlgNames
  /\ run = 1
  /\ pc = "test"
  /\ rng = 0
  /\ started = FALSE
  /\ duration = 0
  /\ iterations = 0
  /\ key_cnt = 0
  /\ key = 0
  /\ log = << >>
  /\ reports = << >>

\* if TEST_ALGS.contains(&"...") (lines 37, 47, 56); falling through to the
\* next block, or off the end of main()
TestAlg ==
  /\ pc = "test"
  /\ IF Alg \in TEST_ALGS
       THEN /\ pc' = "now"
            /\ run' = run
       ELSE IF run < Len(AlgSeq)
              THEN /\ run' = run + 1
                   /\ pc' = "test"
              ELSE /\ run' = run
                   /\ pc' = "exit"
  /\ UNCHANGED <<config, rng, started, duration, iterations, key_cnt, key, log, reports>>

\* let start = Instant::now(); (lines 39, 48, 58)
StartClock ==
  /\ pc = "now"
  /\ started' = TRUE
  /\ log' = << Ev("now", Alg, "", "", 0, 0, 0) >>
  /\ pc' = "call"
  /\ UNCHANGED <<config, run, rng, duration, iterations, key_cnt, key, reports>>

\* gen_ssh_keys(..) entry: the announcement and let mut key_cnt = 0 (67-72)
Announce ==
  /\ pc = "call"
  /\ iterations' = IterArg(Alg)
  /\ log' = Append(log, Ev("print", Alg, "announce", "", IterArg(Alg), 0, 0))
  /\ key_cnt' = 0
  /\ pc' = "loop"
  /\ UNCHANGED <<config, run, rng, started, duration, key, reports>>

\* one pass of the loop head and the generation (lines 73-83, 86)
Generate_skip ==
  /\ pc = "loop"
  /\ LoopCond(key_cnt, iterations)
  /\ key_cnt' = key_cnt + 1
  /\ rng' = rng + 1
  /\ \E res \in Result :
       IF res = "Ok"
         THEN /\ log' = Append(log, Ev("random", Alg, "Ok", "Ok", rng', 0, 0))
              /\ key' = IF IsFirstKey(key_cnt') THEN rng' ELSE 0
              /\ pc' = IF IsFirstKey(key_cnt') THEN "dump" ELSE "loop"
         ELSE /\ log' = Append(log, Ev("random", Alg, "Err", "Err", rng', 0, 0))
              /\ key' = 0
              /\ pc' = "loop"
  /\ UNCHANGED <<config, run, started, duration, iterations, reports>>

Generate_count_after ==
  /\ pc = "loop"
  /\ LoopCond(key_cnt, iterations)
  /\ rng' = rng + 1
  /\ \E res \in Result :
       IF res = "Ok"
         THEN /\ key_cnt' = key_cnt + 1
              /\ log' = Append(log, Ev("random", Alg, "Ok", "Ok", rng', 0, 0))
              /\ key' = IF IsFirstKey(key_cnt') THEN rng' ELSE 0
              /\ pc' = IF IsFirstKey(key_cnt') THEN "dump" ELSE "loop"
         ELSE /\ key_cnt' = key_cnt
              /\ log' = log \o << Ev("random", Alg, "Err", "Err", rng', 0, 0),
                                  Ev("panic", Alg, "Key generation failed", "", 0, 0, 0) >>
              /\ key' = 0
              /\ pc' = "panicked"
  /\ UNCHANGED <<config, run, started, duration, iterations, reports>>

Generate ==
  /\ pc = "loop"
  /\ LoopCond(key_cnt, iterations)
  /\ key_cnt' = key_cnt + 1
  /\ rng' = rng + 1
  /\ \E res \in Result :
       IF res = "Ok"
         THEN /\ log' = Append(log, Ev("random", Alg, "Ok", "Ok", rng', 0, 0))
              \* a key that is not the first is dropped at the end of the pass
              /\ key' = IF IsFirstKey(key_cnt') THEN rng' ELSE 0
              /\ pc' = IF IsFirstKey(key_cnt') THEN "dump" ELSE "loop"
         ELSE /\ log' = log \o << Ev("random", Alg, "Err", "Err", rng', 0, 0),
                                  Ev("panic", Alg, "Key generation failed", "", 0, 0, 0) >>
              /\ key' = 0
              /\ pc' = "panicked"
  /\ UNCHANGED <<config, run, started, duration, iterations, reports>>

\* one encoder call and the line printed when it returns Ok (if let Ok ...)
Encode(what, line, res) ==
  IF res = "Ok"
    THEN << Ev("encode", Alg, what, "Ok", key, 0, 0),
            Ev("print", Alg, line, "", key, 0, 0) >>
    ELSE << Ev("encode", Alg, what, "Err", key, 0, 0) >>

DumpLines(r1, r2, r3) ==
     << Ev("print", Alg, "privhdr", "", 0, 0, 0) >>
  \o Encode("to_openssh", "privkey", r1)
  \o Encode("to_bytes", "keylen", r2)
  \o Encode("pub_to_openssh", "pubkey", r3)
  \o << Ev("print", Alg, "fingerprint", "", key, 0, 0) >>

\* the body of `if key_cnt == 1` (lines 86-103)
PrintFirstKey_unwrap ==
  /\ pc = "dump"
  /\ \E r1, r2, r3 \in Result :
       IF r1 = "Ok" /\ r2 = "Ok" /\ r3 = "Ok"
         THEN /\ log' = log \o DumpLines(r1, r2, r3)
              /\ pc' = "loop"
         ELSE /\ log' = log \o << Ev("print", Alg, "privhdr", "", 0, 0, 0),
                                  Ev("encode", Alg, "any", "Err", key, 0, 0),
                                  Ev("panic", Alg, "called unwrap on Err", "", 0, 0, 0) >>
              /\ pc' = "panicked"
  /\ key' = 0
  /\ UNCHANGED <<config, run, rng, started, duration, iterations, key_cnt, reports>>

PrintFirstKey ==
  /\ pc = "dump"
  /\ \E r1, r2, r3 \in Result :
       log' = log \o DumpLines(r1, r2, r3)
  /\ key' = 0
  /\ pc' = "loop"
  /\ UNCHANGED <<config, run, rng, started, duration, iterations, key_cnt, reports>>

\* the loop condition is false: gen_ssh_keys returns (lines 73, 105)
LoopExit ==
  /\ pc = "loop"
  /\ ~LoopCond(key_cnt, iterations)
  /\ pc' = "elapsed"
  /\ UNCHANGED <<config, run, rng, started, duration, iterations, key_cnt, key, log, reports>>

\* let duration = start.elapsed(); (lines 41, 50, 60)
Elapsed ==
  /\ pc = "elapsed"
  /\ \E d \in 0..MaxElapsed :
       /\ duration' = d
       /\ log' = Append(log, Ev("elapsed", Alg, "", "", 0, d, 0))
  /\ started' = FALSE
  /\ pc' = "report"
  /\ UNCHANGED <<config, run, rng, iterations, key_cnt, key, reports>>

\* println!("Time to generate ...", N, alg, duration, duration/N) (42-43,
\* 51-52, 61-62): the arguments are evaluated before anything is printed
ReportLine(a) ==
  Ev("print", a, "report", "", IterArg(a), duration, DurationDiv(duration, Divisor(a)))

Report ==
  /\ pc = "report"
  /\ IF Divisor(Alg) = 0
       THEN /\ log' = Append(log, Ev("panic", Alg, "divide by zero", "", 0, 0, 0))
            /\ reports' = reports
            /\ pc' = "panicked"
            /\ run' = run
       ELSE /\ log' = Append(log, ReportLine(Alg))
            /\ reports' = Append(reports, ReportLine(Alg))
            /\ IF run < Len(AlgSeq)
                 THEN /\ run' = run + 1
                      /\ pc' = "test"
                 ELSE /\ run' = run
                      /\ pc' = "exit"
  /\ UNCHANGED <<config, rng, started, duration, iterations, key_cnt, key>>

Next ==
  \/ TestAlg
  \/ StartClock
  \/ Announce
  \/ Generate
  \/ PrintFirstKey
  \/ LoopExit
  \/ Elapsed
  \/ Report

Spec == Init /\ [][Next]_vars

\* main() is one thread that is never suspended: a step that can be taken is taken
FairSpec == Spec /\ WF_vars(Next)

\* ---- reading the log ----
Idx == 1..Len(log)

IsRandom(e) == e.op = "random"
IsGenErr(e) == e.op = "random" /\ e.res = "Err"
IsGenOk(e) == e.op = "random" /\ e.res = "Ok"
IsEncErr(e) == e.op = "encode" /\ e.res = "Err"
IsReport(e) == e.op = "print" /\ e.what = "report"
IsAnnounce(e) == e.op = "print" /\ e.what = "announce"
IsDumpHdr(e) == e.op = "print" /\ e.what = "privhdr"
IsDumpLine(e) == e.op = "print" /\ e.what \in {"privkey", "keylen", "pubkey", "fingerprint"}
IsPanic(e) == e.op = "panic"

Calls(a) == Cardinality({i \in Idx : IsRandom(log[i]) /\ log[i].alg = a})
OkCount(a) == Cardinality({i \in Idx : IsGenOk(log[i]) /\ log[i].alg = a})
Reports(a) == {i \in Idx : IsReport(log[i]) /\ log[i].alg = a}
GenFailed == \E i \in Idx : IsGenErr(log[i])
Reported(a) == \E i \in 1..Len(reports) : reports[i].alg = a

\* the draw that produced the first key of run a (0 when there is none yet)
FirstKey(a) ==
  LET S == {i \in Idx : IsGenOk(log[i]) /\ log[i].alg = a}
  IN IF S = {} THEN 0 ELSE log[CHOOSE i \in S : \A j \in S : i <= j].n

\* position of the blocks in the text of main()
Pos(a) == CASE a = "ECDSA" -> 1 [] a = "ED25519" -> 2 [] a = "RSA" -> 3

\* ---- C1 ----
\* C1: a failed generation is the last thing the run does: the panic follows
\* it at once, the process is in its terminal failure state whatever the
\* number of iterations left, no further generation call is in the log and
\* the run's report line is never printed.
C1_GenFailureTerminal ==
  \A i \in Idx :
    IsGenErr(log[i]) =>
      /\ i = Len(log) - 1
      /\ IsPanic(log[Len(log)])
      /\ log[Len(log)].what = "Key generation failed"
      /\ pc = "panicked"
      /\ Reports(log[i].alg) = {}
      /\ ~Reported(log[i].alg)
      /\ \A j \in Idx : (j > i) => ~IsRandom(log[j])

\* a generation failed on the second call with iterations still remaining
C1_Witness ==
  /\ GenFailed
  /\ pc = "panicked"
  /\ Calls(Alg) = 2
  /\ iterations = 3

C3_ZeroIterationsRejected ==
  /\ ~(pc = "report" /\ IterArg(Alg) = 0)
  /\ \A i \in Idx : ~(IsPanic(log[i]) /\ log[i].what = "divide by zero")

\* ---- C4 ----
\* C4: in every run the first-key dump happens exactly once, directly after
\* the first successful generation of the run, and shows the key of
\* iteration 1; no later generation is followed by a dump and no later key
\* is retained or printed.
C4_FirstKeyDumpedOnce ==
  \* a dump header directly follows the first successful generation of its run
  /\ \A i \in Idx :
       IsDumpHdr(log[i]) =>
         /\ i > 1
         /\ IsGenOk(log[i-1])
         /\ log[i-1].alg = log[i].alg
         /\ \A j \in Idx : (j < i - 1 /\ log[j].alg = log[i].alg) => ~IsGenOk(log[j])
         /\ \E j \in Idx : /\ j > i
                           /\ j <= i + 7
                           /\ log[j].op = "print"
                           /\ log[j].what = "fingerprint"
  \* a successful generation is followed by a dump exactly when it is the first
  /\ \A i \in Idx :
       IsGenOk(log[i]) =>
         IF \E j \in Idx : j < i /\ IsGenOk(log[j]) /\ log[j].alg = log[i].alg
           THEN i < Len(log) => ~IsDumpHdr(log[i+1])
           ELSE IF i = Len(log) THEN pc = "dump" /\ key = log[i].n
                                ELSE IsDumpHdr(log[i+1])
  \* every line of a dump shows the key its header follows
  /\ \A i \in Idx :
       (IsDumpLine(log[i]) \/ log[i].op = "encode") =>
         /\ i > 2
         /\ log[i-1].alg = log[i].alg
         /\ \/ (IsDumpLine(log[i-1]) \/ log[i-1].op = "encode") /\ log[i-1].n = log[i].n
            \/ IsDumpHdr(log[i-1]) /\ log[i-2].n = log[i].n
  \* no key but the first is retained
  /\ key # 0 => (pc = "dump" /\ key_cnt = 1 /\ key = FirstKey(Alg))

\* three keys were generated in a run and one was dumped
C4_Witness ==
  /\ OkCount(Alg) = 3
  /\ pc = "loop"
  /\ Cardinality({i \in Idx : IsDumpHdr(log[i]) /\ log[i].alg = Alg}) = 1

\* ---- C5 ----
C5_Safe ==
  /\ \A a \in TEST_ALGS :
       /\ Cardinality(Reports(a)) <= 1
       /\ Cardinality({i \in 1..Len(reports) : reports[i].alg = a}) <= 1
       /\ Calls(a) <= IterArg(a)
  /\ \A i \in Idx : IsReport(log[i]) => (i = Len(log) /\ reports[Len(reports)] = log[i])
  /\ \A i \in Idx :
       /\ IsReport(log[i]) =>
            /\ OkCount(log[i].alg) = IterArg(log[i].alg)
            /\ IterArg(log[i].alg) >= 1
       /\ log[i].op = "elapsed" => OkCount(log[i].alg) = IterArg(log[i].alg)
       \* a run of N >= 1 iterations stops early only on a generation error
       /\ (IsPanic(log[i]) /\ IterArg(log[i].alg) >= 1) =>
            (i > 1 /\ IsGenErr(log[i-1]))

\* the process is over: main() returned or a panic unwound it
Terminated == pc \in {"exit", "panicked"}

\* C5: a run of N >= 1 iterations makes at most N generation calls, prints
\* its report line at most once and only after N successful generations,
\* and stops early only on a generation error; the program always ends, and
\* when it ends without a panic every selected run has printed its report.
C5_RunTerminates ==
  /\ [](C5_Safe /\ (pc = "exit" => \A a \in TEST_ALGS : Reported(a)))
  /\ <>Terminated

\* a run of three iterations has printed its report line
C5_Witness ==
  \E a \in AlgNames : Reports(a) # {} /\ IterArg(a) = 3 /\ OkCount(a) = 3

\* ---- C6 ----
\* C6: nothing is printed or encoded between the clock start and the clock
\* stop of a run.
C6_TimedIntervalGenerationOnly ==
  \A i \in Idx : \A j \in Idx :
    ( /\ i < j
      /\ log[i].op = "now"
      /\ \A k \in Idx : (i < k /\ k < j) => log[k].op # "elapsed" )
    => log[j].op \notin {"print", "encode"}

\* ---- C7 ----
\* C7: every failed encoder call of the first-key dump is followed by a
\* report of the failure.
C7_EncodingErrorsReported ==
  \A i \in Idx :
    IsEncErr(log[i]) =>
      \E j \in Idx :
        /\ j > i
        /\ log[j].alg = log[i].alg
        /\ \/ IsPanic(log[j])
           \/ (log[j].op = "print" /\ log[j].what = "error")

\* ---- C8 ----
\* C8: a failed encoder call ends nothing but its own line: the dump goes on
\* to its next line, no panic follows it, the counter still equals the
\* number of generation calls made, and the run's report line carries the
\* configured iteration count, which is the number of keys generated, with
\* the measured total and its mean.
C8_EncodingFailureLocal ==
  /\ \A i \in Idx :
       IsEncErr(log[i]) =>
         /\ i < Len(log)
         /\ log[i+1].op \in {"encode", "print"}
         /\ log[i+1].alg = log[i].alg
  /\ LET E == {log[i].alg : i \in {k \in Idx : IsEncErr(log[k])}}
     IN /\ E # {} =>
             \A j \in Idx : IsPanic(log[j]) =>
                (j > 1 /\ log[j-1].op \in {"random", "elapsed"})
        /\ \A a \in E : \A j \in Reports(a) :
              /\ log[j].n = IterArg(a)
              /\ log[j].n = OkCount(a)
              /\ log[j-1].op = "elapsed"
              /\ log[j].d = log[j-1].d
              /\ log[j].m = log[j].d \div log[j].n
  /\ pc \in {"loop", "dump"} => key_cnt = Calls(Alg)

\* a run whose dump lost a line has generated all its keys and reported
C8_Witness ==
  \E i \in Idx :
    /\ IsEncErr(log[i])
    /\ Reports(log[i].alg) # {}
    /\ OkCount(log[i].alg) = 3

\* ---- C9 ----
\* C9: every report line shows an iteration count n > 0, a total d and a
\* mean m with m*n <= d < (m+1)*n; d is the duration just measured and n is
\* the count announced by, and generated in, the run.
C9_MeanIsTruncatedQuotient ==
  \A i \in Idx :
    IsReport(log[i]) =>
      /\ log[i].n > 0
      /\ log[i].m * log[i].n <= log[i].d
      /\ log[i].d < (log[i].m + 1) * log[i].n
      /\ i > 1 /\ log[i-1].op = "elapsed" /\ log[i-1].d = log[i].d
      /\ \E j \in Idx : /\ j < i
                        /\ IsAnnounce(log[j])
                        /\ log[j].alg = log[i].alg
                        /\ log[j].n = log[i].n
      /\ OkCount(log[i].alg) = log[i].n

\* a report whose mean was rounded down
C9_Witness ==
  \E i \in Idx :
    /\ IsReport(log[i])
    /\ log[i].n = 2
    /\ log[i].d = 3
    /\ log[i].m = 1

\* ---- C10 ----
\* C10: the runs happen in the order ECDSA, Ed25519, RSA and never overlap:
\* the effects of a run are those of one algorithm, and when a run is in
\* progress every selected algorithm that precedes it has printed its report
\* line, for the configured number of keys, and no later one has; only
\* selected algorithms run; a panic is the last event of the process, so no
\* run starts after a failure.
C10_RunsSequential ==
  /\ \A i \in Idx : log[i].alg = log[1].alg /\ log[i].alg \in TEST_ALGS
  /\ \A i \in 1..Len(reports) :
       /\ reports[i].alg \in TEST_ALGS
       /\ reports[i].n = IterArg(reports[i].alg)
       /\ i < Len(reports) => Pos(reports[i].alg) < Pos(reports[i+1].alg)
       /\ Len(log) > 0 => Pos(reports[i].alg) <= Pos(log[1].alg)
  /\ Len(log) > 0 =>
       /\ \A a \in TEST_ALGS : Pos(a) < Pos(log[1].alg) => Reported(a)
       /\ Reported(log[1].alg) <=> IsReport(log[Len(log)])
       /\ log[1].op = "now"
       /\ \A i \in Idx : (i > 1) => log[i].op # "now"
  /\ \A i \in Idx : IsPanic(log[i]) => (i = Len(log) /\ pc = "panicked")
  /\ pc \in {"call", "loop", "dump", "elapsed", "report"} =>
        (log[1].alg = Alg /\ ~IsReport(log[Len(log)]))
  /\ started <=> (pc \in {"call", "loop", "dump", "elapsed"}
                  \/ (pc = "panicked" /\ GenFailed))

\* all three runs have reported
C10_Witness ==
  /\ pc = "exit"
  /\ Len(reports) = 3

====
